---------------------------- MODULE Spec2Model ----------------------------
(***************************************************************************)
(* A model of mdq's interactive shell (src/src/repl) and of its selector   *)
(* diagnostics (src/src/query/error.rs).                                   *)
(*                                                                         *)
(* Text is modelled as a sequence of one-character strings, so that trim,  *)
(* strip_prefix, split_whitespace and byte offsets are computed and not    *)
(* assumed.  Printed output is a sequence of line records.                 *)
(***************************************************************************)
EXTENDS Integers, Sequences, FiniteSets

VARIABLES
    \* ---- the REPL (engine.rs, session.rs, state.rs, input.rs) ----
    rpc,             \* position of the process: "start", "prompt", "exited", "failed"
    allow_unknown_markdown, \* RunOptions.allow_unknown_markdown
    stdin_open,      \* standard input has not reached its end
    content,         \* ReplSession.content : Option<String>
    path,            \* ReplSession.path : Option<String>
    document,        \* ReplState.document : Option<MdDoc>
    current_format,  \* ReplState.current_format
    variables,       \* the HashMap of run(): name -> value
    history,         \* ReplInput.history
    line,            \* Option of the line read in the last loop iteration, as typed
    command,         \* the ReplCommand parsed in the last loop iteration
    tried,           \* the string handed to Selector::try_parse in the last iteration
    output,          \* what the last loop iteration wrote
    steps,           \* lines read so far (calls made, for ReplInput on its own)
    \* ---- diagnostics (error.rs) ----
    epc,             \* "made", "parsed", "ran"
    perr,            \* the ParseError at hand
    query_text,      \* the query text given to the renderers
    plain,           \* Option of to_string's result
    enhanced,        \* Option of to_string_with_suggestions' result
    enhanced_errors, \* RunOptions.enhanced_errors of the last run()
    error_output,    \* Option of what run() handed to write_error
    rule,            \* the rule last looked up
    desc,            \* Option of its description
    \* ---- ReplInput (input.rs) ----
    cap,             \* ReplInput.max_history
    accepted,        \* the commands add_to_history has stored so far, in order
    stored,          \* whether the last command read or handed over was stored
    \* ---- selection (find_nodes) ----
    sel_doc,         \* the document searched
    sel_chain,       \* the selector chain applied to it
    sel_k,           \* the number of chain steps applied so far
    working_set,     \* the working set after those steps
    previous_set,    \* the working set before the last step
    sel_out          \* Option of what execute_query reports for the result

replVars == <<rpc, allow_unknown_markdown, stdin_open, content, path, document,
              current_format, variables, history, line, command, tried, output,
              steps>>
errVars == <<epc, perr, query_text, plain, enhanced, enhanced_errors, error_output,
             rule, desc>>
histVars == <<cap, accepted, stored>>
selVars == <<sel_doc, sel_chain, sel_k, working_set, previous_set, sel_out>>
vars == <<replVars, errVars, histVars, selVars>>

-----------------------------------------------------------------------------
(* Bounds of the model. *)

\* lines the REPL reads in one run
MaxSteps == 3
\* rules in a grammar error's positives
MaxPositives == 2
\* largest byte offset of a semantic error's span
MaxOffset == 4
\* selectors in a chain
MaxChain == 3
\* ReplInput::new(n): the largest n
MaxHistory == 3
\* calls of ReplInput::add_to_history
MaxAdds == 5

-----------------------------------------------------------------------------
(* Option values. *)

None == <<>>
Some(x) == <<x>>
IsSome(o) == o # <<>>
Unwrap(o) == o[1]

-----------------------------------------------------------------------------
(* Strings as character sequences. *)

is_whitespace(c) == c \in {" ", "\t", "\n"}

RECURSIVE trim_start(_)
trim_start(s) ==
    IF s = <<>> THEN s
    ELSE IF is_whitespace(Head(s)) THEN trim_start(Tail(s)) ELSE s

RECURSIVE trim_end(_)
trim_end(s) ==
    IF s = <<>> THEN s
    ELSE IF is_whitespace(s[Len(s)]) THEN trim_end(SubSeq(s, 1, Len(s) - 1)) ELSE s

trim(s) == trim_end(trim_start(s))

starts_with(s, p) == Len(s) >= Len(p) /\ SubSeq(s, 1, Len(p)) = p

\* str::strip_prefix('.'): Some(rest) when the text starts with the character
strip_prefix(s, c) ==
    IF s # <<>> /\ Head(s) = c THEN Some(Tail(s)) ELSE None

\* str::split_whitespace: the non-empty maximal runs of non-whitespace
RECURSIVE split_from(_, _, _)
split_from(s, cur, acc) ==
    IF s = <<>> THEN (IF cur = <<>> THEN acc ELSE Append(acc, cur))
    ELSE IF is_whitespace(Head(s))
         THEN split_from(Tail(s), <<>>, IF cur = <<>> THEN acc ELSE Append(acc, cur))
         ELSE split_from(Tail(s), Append(cur, Head(s)), acc)

split_whitespace(s) == split_from(s, <<>>, <<>>)

\* [&str]::join with an empty separator
RECURSIVE join_no_separator(_)
join_no_separator(ws) ==
    IF ws = <<>> THEN <<>>
    ELSE ws[1] \o join_no_separator(Tail(ws))

\* [&str]::join(" ")
RECURSIVE join(_)
join(ws) ==
    IF ws = <<>> THEN <<>>
    ELSE IF Len(ws) = 1 THEN ws[1]
    ELSE ws[1] \o <<" ">> \o join(Tail(ws))


-----------------------------------------------------------------------------
(* ReplCommand (commands.rs).  A command is a record: tag, the string      *)
(* arguments a and b, and the output format of a Format command.           *)

Cmd(tag, a, b, fmt) == [tag |-> tag, a |-> a, b |-> b, fmt |-> fmt]

kw_load == <<"l", "o", "a", "d">>
kw_reload == <<"r", "e", "l", "o", "a", "d">>
kw_format == <<"f", "o", "r", "m", "a", "t">>
kw_md == <<"m", "d">>
kw_markdown == <<"m", "a", "r", "k", "d", "o", "w", "n">>
kw_json == <<"j", "s", "o", "n">>
kw_plain == <<"p", "l", "a", "i", "n">>
kw_set == <<"s", "e", "t">>
kw_get == <<"g", "e", "t">>
kw_vars == <<"v", "a", "r", "s">>
kw_variables == <<"v", "a", "r", "i", "a", "b", "l", "e", "s">>
kw_help == <<"h", "e", "l", "p">>
kw_info == <<"i", "n", "f", "o">>
kw_clear == <<"c", "l", "e", "a", "r">>
kw_exit == <<"e", "x", "i", "t">>
kw_quit == <<"q", "u", "i", "t">>

\* the match on parts[0] that hands what it does not know to the selectors
parse_builtin_as_query(input, parts) ==
    LET query == Cmd("Query", input, <<>>, "")
        n == Len(parts)
    IN  CASE parts[1] = kw_load ->
                IF n = 2 THEN Cmd("Load", parts[2], <<>>, "") ELSE query
          [] parts[1] = kw_reload -> Cmd("Reload", <<>>, <<>>, "")
          [] parts[1] = kw_format ->
                IF n = 2 /\ parts[2] = kw_json
                THEN Cmd("Format", <<>>, <<>>, "Json") ELSE query
          [] parts[1] = kw_set ->
                IF n >= 3 THEN Cmd("Set", parts[2], join(SubSeq(parts, 3, n)), "") ELSE query
          [] parts[1] = kw_get ->
                IF n = 2 THEN Cmd("Get", parts[2], <<>>, "") ELSE query
          [] parts[1] \in {kw_vars, kw_variables} -> Cmd("Variables", <<>>, <<>>, "")
          [] parts[1] = kw_help -> Cmd("Help", <<>>, <<>>, "")
          [] parts[1] = kw_info -> Cmd("Info", <<>>, <<>>, "")
          [] parts[1] = kw_clear -> Cmd("Clear", <<>>, <<>>, "")
          [] parts[1] \in {kw_exit, kw_quit} -> Cmd("Exit", <<>>, <<>>, "")
          [] OTHER -> query

\* the match on parts[0] of ReplCommand::parse
parse_builtin(input, parts) ==
    LET unknown == Cmd("Unknown", input, <<>>, "")
        n == Len(parts)
    IN  CASE parts[1] = kw_load ->
                IF n = 2 THEN Cmd("Load", parts[2], <<>>, "") ELSE unknown
          [] parts[1] = kw_reload -> Cmd("Reload", <<>>, <<>>, "")
          [] parts[1] = kw_format ->
                IF n = 2
                THEN CASE parts[2] \in {kw_md, kw_markdown} -> Cmd("Format", <<>>, <<>>, "Markdown")
                       [] parts[2] = kw_json -> Cmd("Format", <<>>, <<>>, "Json")
                       [] parts[2] = kw_plain -> Cmd("Format", <<>>, <<>>, "Plain")
                       [] OTHER -> unknown
                ELSE unknown
          [] parts[1] = kw_set ->
                IF n >= 3 THEN Cmd("Set", parts[2], join(SubSeq(parts, 3, n)), "") ELSE unknown
          [] parts[1] = kw_get ->
                IF n = 2 THEN Cmd("Get", parts[2], <<>>, "") ELSE unknown
          [] parts[1] \in {kw_vars, kw_variables} -> Cmd("Variables", <<>>, <<>>, "")
          [] parts[1] = kw_help -> Cmd("Help", <<>>, <<>>, "")
          [] parts[1] = kw_info -> Cmd("Info", <<>>, <<>>, "")
          [] parts[1] = kw_clear -> Cmd("Clear", <<>>, <<>>, "")
          [] parts[1] \in {kw_exit, kw_quit} -> Cmd("Exit", <<>>, <<>>, "")
          [] OTHER -> unknown

\* ReplCommand::parse without its test for an empty line
ReplCommand_parse_no_empty_test(raw) ==
    LET input == trim(raw)
        stripped == strip_prefix(input, ".")
    IN  IF IsSome(stripped)
        THEN LET parts == split_whitespace(Unwrap(stripped))
             IN  IF parts = <<>> THEN Cmd("Unknown", input, <<>>, "")
                 ELSE parse_builtin(input, parts)
        ELSE Cmd("Query", input, <<>>, "")

\* ReplCommand::parse
ReplCommand_parse(raw) ==
    LET input == trim(raw)
        stripped == strip_prefix(input, ".")
    IN  IF input = <<>> THEN Cmd("Unknown", input, <<>>, "")
        ELSE IF IsSome(stripped)
             THEN LET parts == split_whitespace(Unwrap(stripped))
                  IN  IF parts = <<>> THEN Cmd("Unknown", input, <<>>, "")
                      ELSE parse_builtin(input, parts)
             ELSE Cmd("Query", input, <<>>, "")
-----------------------------------------------------------------------------
(* The grammar's rule identifiers: the arms of rule_to_string's            *)
(* exhaustive match (error.rs).  A TLA+ string holds neither a grave       *)
(* accent nor a non-ASCII character: in the literals below "~" stands for  *)
(* the grave accent and "*" at the head of a catalog line for U+2022.      *)

Rule ==
    {"EOI", "WHITESPACE", "top", "selector_chain", "selector",
     "selector_delim", "explicit_space", "select_section", "section_start",
     "select_list_item", "list_start", "list_ordered", "list_task_options",
     "task_checked", "task_unchecked", "task_either", "task_end",
     "select_link", "link_start", "image_start", "select_block_quote",
     "select_block_quote_start", "select_code_block", "code_block_start",
     "select_front_matter", "front_matter_start", "select_html",
     "html_start", "select_paragraph", "select_paragraph_start",
     "select_table", "table_start", "string",
     "string_for_unit_tests__do_not_use_angle",
     "string_for_unit_tests__do_not_use_pipe", "unquoted_string", "regex",
     "regex_char", "regex_escaped_slash", "regex_normal_char",
     "regex_replacement_segment", "quoted_string", "quoted_char", "asterisk",
     "anchor_start", "anchor_end", "quoted_plain_chars", "escaped_char",
     "unicode_seq"}

\* rule_to_string that leaves a rule unnamed: its identifier, as pest prints it
rule_to_string_debug(r) == r

\* rule_to_string: the description of a rule
rule_to_string(r) ==
    CASE r = "EOI" -> "end of input"
      [] r = "WHITESPACE" -> "whitespace"
      [] r = "top" -> "valid query"
      [] r = "selector_chain" -> "one or more selectors"
      [] r = "selector" -> "selector"
      [] r \in {"selector_delim", "explicit_space"} -> "space"
      [] r \in {"select_section", "section_start"} -> "#"
      [] r \in {"select_list_item", "list_start"} -> "- or 1."
      [] r = "list_ordered" -> "-"
      [] r = "list_task_options" -> "[ ], [x], or [?]"
      [] r = "task_checked" -> "[x]"
      [] r = "task_unchecked" -> "[ ]"
      [] r = "task_either" -> "[?]"
      [] r = "task_end" -> "]"
      [] r \in {"select_link", "link_start"} -> "[ or !["
      [] r = "image_start" -> "!["
      [] r \in {"select_block_quote", "select_block_quote_start"} -> ">"
      [] r \in {"select_code_block", "code_block_start"} -> "~~~"
      [] r \in {"select_front_matter", "front_matter_start"} -> "+++"
      [] r \in {"select_html", "html_start"} -> "</>"
      [] r \in {"select_paragraph", "select_paragraph_start"} -> "P:"
      [] r \in {"select_table", "table_start"} -> ":-:"
      [] r \in {"string", "string_for_unit_tests__do_not_use_angle",
                "string_for_unit_tests__do_not_use_pipe"} -> "string"
      [] r = "unquoted_string" -> "unquoted string"
      [] r = "regex" -> "regex"
      [] r = "regex_char" -> "regex character"
      [] r = "regex_escaped_slash" -> "/"
      [] r = "regex_normal_char" -> "regex character"
      [] r = "regex_replacement_segment" -> "regex replacement"
      [] r = "quoted_string" -> "quoted string"
      [] r = "quoted_char" -> "character in quoted string"
      [] r = "asterisk" -> "*"
      [] r = "anchor_start" -> "^"
      [] r = "anchor_end" -> "$"
      [] r = "quoted_plain_chars" -> "character in quoted string"
      [] r = "escaped_char" -> "escape sequence"
      [] r = "unicode_seq" -> "unicode sequence"

-----------------------------------------------------------------------------
(* Byte offsets.  A character is a one-element string; "e_acute" names a   *)
(* character that takes two bytes in UTF-8, every other one takes one.     *)

len_utf8(c) == IF c = "e_acute" THEN 2 ELSE 1

RECURSIVE byte_len(_)
byte_len(s) == IF s = <<>> THEN 0 ELSE len_utf8(Head(s)) + byte_len(Tail(s))

\* str::is_char_boundary
is_char_boundary(s, i) ==
    \E k \in 0..Len(s) : byte_len(SubSeq(s, 1, k)) = i

\* the number of characters that end at or before byte offset i
chars_before(s, i) ==
    Cardinality({k \in 1..Len(s) : byte_len(SubSeq(s, 1, k)) <= i})

\* Span::new that checks the order and the length but no character boundary
Span_new_unchecked(input, start, end) ==
    IF start <= end /\ end <= byte_len(input)
    THEN Some([start |-> start, end |-> end])
    ELSE None

\* pest::Span::new: a span only when input.get(start..end) is some slice
Span_new(input, start, end) ==
    IF start <= end /\ is_char_boundary(input, start) /\ is_char_boundary(input, end)
    THEN Some([start |-> start, end |-> end])
    ELSE None

\* pest::Position::line_col: the line and the column, both from 1
line_col(input, pos) ==
    LET n == chars_before(input, pos)
        nl == {k \in 1..n : input[k] = "\n"}
        last == IF nl = {} THEN 0 ELSE CHOOSE k \in nl : \A j \in nl : j <= k
    IN  [line |-> 1 + Cardinality(nl), col |-> n - last + 1]

\* pest::Position::line_of: the text of the line the position is in
line_of(input, pos) ==
    LET n == chars_before(input, pos)
        before == {k \in 1..n : input[k] = "\n"}
        after == {k \in (n + 1)..Len(input) : input[k] = "\n"}
        from == IF before = {} THEN 1
                ELSE 1 + (CHOOSE k \in before : \A j \in before : j <= k)
        to == IF after = {} THEN Len(input)
              ELSE (CHOOSE k \in after : \A j \in after : k <= j) - 1
    IN  SubSeq(input, from, to)

-----------------------------------------------------------------------------
(* Rendered text: a sequence of lines, each a record.                      *)

Line(k, a, b, src, txt, descs) ==
    [k |-> k, a |-> a, b |-> b, src |-> src, txt |-> txt, descs |-> descs]

\* " --> <line>:<col>"
ArrowLine(l, c) == Line("-->", l, c, <<>>, "", <<>>)
\* "  |"
BarLine == Line("|", 0, 0, <<>>, "", <<>>)
\* "<line> | <source line>"
SourceLine(l, src) == Line("source", l, 0, src, "", <<>>)
\* "  | ..."
GapLine == Line("...", 0, 0, <<>>, "", <<>>)
\* "  | ^---" for a position (b = 0), "  | ^--^" from column a to column b for a span
UnderLine(a, b) == Line("^", a, b, <<>>, "", <<>>)
\* "  = <message>", the message being a text or "expected" and descriptions
MessageLine(txt, descs) == Line("=", 0, 0, <<>>, txt, descs)
\* a line of plain text
TextLine(txt) == Line("text", 0, 0, <<>>, txt, <<>>)
\* a message: a text, or "expected" and what was expected
Msg(txt, descs) == [txt |-> txt, descs |-> descs]
\* a message printed on a line of its own
RawLine(m) == Line("text", 0, 0, <<>>, m.txt, m.descs)
\* "Expected: `<description>`"
ExpectedLine(d) == Line("Expected:", 0, 0, <<>>, d, <<>>)

-----------------------------------------------------------------------------
(* ParseError (error.rs).  inner is "Pest" (a grammar-level error, which   *)
(* holds the text it was made from and a position or a span in it) or      *)
(* "Other" (a DetachedSpan and a message).  A message is a Msg record; a   *)
(* ParsingError has none.                                                  *)

PestError(variant, positives, negatives, message, src, start, end, isspan) ==
    [inner |-> "Pest", variant |-> variant, positives |-> positives,
     negatives |-> negatives, message |-> message, src |-> src,
     start |-> start, end |-> end, isspan |-> isspan]

OtherError(start, end, message) ==
    [inner |-> "Other", variant |-> "", positives |-> <<>>, negatives |-> <<>>,
     message |-> message, src |-> <<>>, start |-> start, end |-> end,
     isspan |-> TRUE]

\* crate::query::Error::new_from_span: a custom error over a span of a text
new_from_span(input, span, message) ==
    PestError("CustomError", <<>>, <<>>, message, input, span.start, span.end, TRUE)

\* the descriptions of a sequence of rules
descriptions(rules) == [i \in 1..Len(rules) |-> rule_to_string(rules[i])]

\* the message of a pest error: ErrorVariant::message
variant_message(e) ==
    IF e.variant = "CustomError" THEN MessageLine(e.message.txt, e.message.descs)
    ELSE IF e.positives = <<>> /\ e.negatives = <<>>
         THEN MessageLine("unknown parsing error", <<>>)
    ELSE IF e.positives = <<>>
         THEN MessageLine("unexpected", descriptions(e.negatives))
    ELSE IF e.negatives = <<>>
         THEN MessageLine("expected", descriptions(e.positives))
    ELSE MessageLine("unexpected; expected",
                     descriptions(e.negatives) \o descriptions(e.positives))

\* Display of crate::query::Error: pest's caret diagram
Display_Error(e) ==
    LET s == line_col(e.src, e.start)
        t == line_col(e.src, e.end)
    IN  IF e.isspan /\ t.line # s.line
        THEN <<ArrowLine(s.line, s.col), BarLine, SourceLine(s.line, line_of(e.src, e.start))>>
             \o (IF t.line - s.line > 1 THEN <<GapLine>> ELSE <<>>)
             \o <<SourceLine(t.line, line_of(e.src, e.end)), UnderLine(s.col, t.col),
                  BarLine, variant_message(e)>>
        ELSE <<ArrowLine(s.line, s.col), BarLine, SourceLine(s.line, line_of(e.src, e.start)),
               UnderLine(s.col, IF e.isspan THEN t.col ELSE 0), BarLine,
               variant_message(e)>>

\* Display of ParseError (InnerParseError): the diagram, or the message alone
Display_ParseError(e) ==
    IF e.inner = "Pest" THEN Display_Error(e) ELSE <<RawLine(e.message)>>

\* the extraction that returns the last positive rule, not the first
extract_last_rule(e) ==
    IF e.variant = "ParsingError"
    THEN (IF e.positives = <<>> THEN None
          ELSE Some(rule_to_string(e.positives[Len(e.positives)])))
    ELSE None

\* the extraction that takes a custom error for a failure of the top rule
extract_custom_as_top(e) ==
    IF e.variant = "ParsingError"
    THEN (IF e.positives = <<>> THEN None ELSE Some(rule_to_string(e.positives[1])))
    ELSE Some(rule_to_string("top"))

\* extract_failed_rule_from_pest_error
extract_failed_rule_from_pest_error(e) ==
    IF e.variant = "ParsingError"
    THEN (IF e.positives = <<>> THEN None ELSE Some(rule_to_string(e.positives[1])))
    ELSE None

\* the catalog with the lines for tables and for the delimiter exchanged
Suggestions_reordered ==
    <<TextLine(""),
      TextLine("Suggestions:"),
      TextLine("  * Use # for sections (e.g., '# My Section')"),
      TextLine("  * Use - for list items (e.g., '- List item')"),
      TextLine("  * Use [] for links (e.g., '[text](url)')"),
      TextLine("  * Use > for blockquotes (e.g., '> Quote text')"),
      TextLine("  * Use ~~~ for code blocks (e.g., '~~~rust code')"),
      TextLine("  * Use +++ for front matter (e.g., '+++ toml')"),
      TextLine("  * Use </> for HTML (e.g., '</> <div>')"),
      TextLine("  * Use P: for paragraphs (e.g., 'P: paragraph text')"),
      TextLine("  * Use | to separate multiple selectors (e.g., '# Section | - List item')"),
      TextLine("  * Use :-: for tables (e.g., ':-: column | row')")>>

\* the lines to_string_with_suggestions pushes when no rule was extracted
Suggestions ==
    <<TextLine(""),
      TextLine("Suggestions:"),
      TextLine("  * Use # for sections (e.g., '# My Section')"),
      TextLine("  * Use - for list items (e.g., '- List item')"),
      TextLine("  * Use [] for links (e.g., '[text](url)')"),
      TextLine("  * Use > for blockquotes (e.g., '> Quote text')"),
      TextLine("  * Use ~~~ for code blocks (e.g., '~~~rust code')"),
      TextLine("  * Use +++ for front matter (e.g., '+++ toml')"),
      TextLine("  * Use </> for HTML (e.g., '</> <div>')"),
      TextLine("  * Use P: for paragraphs (e.g., 'P: paragraph text')"),
      TextLine("  * Use :-: for tables (e.g., ':-: column | row')"),
      TextLine("  * Use | to separate multiple selectors (e.g., '# Section | - List item')")>>

\* to_string that draws no diagram for a semantic error
to_string_no_diagram(e, text) ==
    IF e.inner = "Pest" THEN Display_Error(e) ELSE <<RawLine(e.message)>>

\* ParseError::to_string
to_string(e, text) ==
    IF e.inner = "Pest" THEN Display_Error(e)
    ELSE LET span == Span_new(text, e.start, e.end)
         IN  IF span = None THEN <<RawLine(e.message)>>
             ELSE Display_Error(new_from_span(text, Unwrap(span), e.message))

\* to_string_with_suggestions that puts the hint before the rendering
hint_first(e, text) ==
    IF e.inner = "Pest"
    THEN LET rule_name == extract_failed_rule_from_pest_error(e)
         IN  IF IsSome(rule_name)
             THEN <<ExpectedLine(Unwrap(rule_name)), TextLine("")>> \o Display_Error(e)
             ELSE Suggestions \o Display_Error(e)
    ELSE LET span == Span_new(text, e.start, e.end)
         IN  IF span = None THEN <<RawLine(e.message)>>
             ELSE <<TextLine("[No rule extracted]"), TextLine("")>>
                  \o Display_Error(new_from_span(text, Unwrap(span), e.message))

\* ParseError::to_string_with_suggestions
to_string_with_suggestions(e, text) ==
    IF e.inner = "Pest"
    THEN LET rule_name == extract_failed_rule_from_pest_error(e)
         IN  IF IsSome(rule_name)
             THEN Display_Error(e) \o <<TextLine(""), ExpectedLine(Unwrap(rule_name))>>
             ELSE Display_Error(e) \o Suggestions
    ELSE LET span == Span_new(text, e.start, e.end)
         IN  IF span = None THEN <<RawLine(e.message)>>
             ELSE LET pest_err == new_from_span(text, Unwrap(span), e.message)
                      rule_name == extract_failed_rule_from_pest_error(pest_err)
                  IN  IF IsSome(rule_name)
                      THEN Display_Error(pest_err)
                           \o <<TextLine(""), ExpectedLine(Unwrap(rule_name))>>
                      ELSE Display_Error(pest_err)
                           \o <<TextLine(""), TextLine("[No rule extracted]")>>

-----------------------------------------------------------------------------
(* The selector parser, Selector::try_from / try_parse, after the grammar  *)
(* of the specification: a chain of selectors separated by "|", each a     *)
(* start token and an optional text, a quoted text or a /regex/.  A        *)
(* grammar failure is a pest error whose rules were already rendered into  *)
(* its message (a custom error: the rendering shows "expected valid query" *)
(* and no rule can be extracted from it); a failed validation of a parsed  *)
(* selector is an Other error with the span of the offending text.         *)

Digits == {"0", "1", "2", "3", "4", "5", "6", "7", "8", "9"}

\* the selector kind and the length of the start token a text begins with
start_token(s) ==
    CASE starts_with(s, <<"#">>) -> [kind |-> "Section", len |-> 1]
      [] starts_with(s, <<"-">>) -> [kind |-> "ListItem", len |-> 1]
      [] Len(s) >= 2 /\ s[1] \in Digits /\ s[2] = "." -> [kind |-> "OrderedListItem", len |-> 2]
      [] starts_with(s, <<"!", "[">>) -> [kind |-> "Image", len |-> 2]
      [] starts_with(s, <<"[">>) -> [kind |-> "Link", len |-> 1]
      [] starts_with(s, <<">">>) -> [kind |-> "BlockQuote", len |-> 1]
      [] starts_with(s, <<"~", "~", "~">>) -> [kind |-> "CodeBlock", len |-> 3]
      [] starts_with(s, <<"+", "+", "+">>) -> [kind |-> "FrontMatter", len |-> 3]
      [] starts_with(s, <<"<", "/", ">">>) -> [kind |-> "Html", len |-> 3]
      [] starts_with(s, <<"P", ":">>) -> [kind |-> "Paragraph", len |-> 2]
      [] starts_with(s, <<":", "-", ":">>) -> [kind |-> "Table", len |-> 3]
      [] OTHER -> [kind |-> "", len |-> 0]

\* the number of whitespace characters a text begins with
leading_whitespace(s) == Len(s) - Len(trim_start(s))

\* the index of the first "|" of q at or after index from, or Len(q) + 1
delim_from(q, from) ==
    LET at == {i \in from..Len(q) : q[i] = "|"}
    IN  IF at = {} THEN Len(q) + 1 ELSE CHOOSE i \in at : \A j \in at : i <= j

\* regex::Regex::new accepts the pattern: its groups are closed
regex_is_valid(pattern) ==
    Cardinality({i \in 1..Len(pattern) : pattern[i] = "("})
        = Cardinality({i \in 1..Len(pattern) : pattern[i] = ")"})

\* a grammar failure at byte offset pos of q, where the rule was expected
grammar_failure(q, pos, expected) ==
    PestError("CustomError", <<>>, <<>>, Msg("expected", <<rule_to_string(expected)>>),
              q, pos, pos, FALSE)

ParseOk(chain) == [ok |-> TRUE, chain |-> chain, err |-> None]
ParseErr(e) == [ok |-> FALSE, chain |-> <<>>, err |-> Some(e)]
SelectorSpec(kind, matcher, text) == [kind |-> kind, matcher |-> matcher, text |-> text]

RECURSIVE parse_chain(_, _, _)
parse_chain(q, from, chain) ==
    LET to == delim_from(q, from)
        seg == SubSeq(q, from, to - 1)
        first == from + leading_whitespace(seg)
        body == trim(seg)
        tok == start_token(body)
        rest == SubSeq(body, tok.len + 1, Len(body))
        text == trim(rest)
        \* index in q of the first character of text
        textAt == first + tok.len + leading_whitespace(rest)
        offset(i) == byte_len(SubSeq(q, 1, i - 1))
        next(spec) == IF to > Len(q) THEN ParseOk(Append(chain, spec))
                      ELSE parse_chain(q, to + 1, Append(chain, spec))
    IN  IF tok.len = 0
        THEN ParseErr(grammar_failure(q, offset(first),
                                      IF first = 1 THEN "top" ELSE "selector"))
        ELSE IF text = <<>> \/ text = <<"*">>
             THEN next(SelectorSpec(tok.kind, "Any", <<>>))
        ELSE IF Head(text) = "/"
             THEN IF Len(text) < 2 \/ text[Len(text)] # "/"
                  THEN ParseErr(grammar_failure(q, offset(textAt + Len(text)), "regex_char"))
                  ELSE LET pattern == SubSeq(text, 2, Len(text) - 1)
                       IN  IF regex_is_valid(pattern)
                           THEN next(SelectorSpec(tok.kind, "Regex", pattern))
                           ELSE ParseErr(OtherError(offset(textAt + 1),
                                                    offset(textAt + Len(text) - 1),
                                                    Msg("regex parse error", <<>>)))
        ELSE next(SelectorSpec(tok.kind, "Literal", text))

\* Selector::try_from(&str), Selector::try_parse
Selector_try_parse(q) == parse_chain(q, 1, <<>>)

-----------------------------------------------------------------------------
(* The inputs of the diagnostics.                                          *)

\* "$ ! invalid query string ! $"
q_invalid ==
    <<"$", " ", "!", " ", "i", "n", "v", "a", "l", "i", "d", " ", "q", "u", "e", "r",
      "y", " ", "s", "t", "r", "i", "n", "g", " ", "!", " ", "$">>
\* "# /(/": a section selector with a malformed regex
q_regex == <<"#", " ", "/", "(", "/">>
\* a two-byte character, then text no selector starts with
q_wide == <<"e_acute", "$">>
\* "# a", a line break, "| $": a chain whose second selector is no selector
q_lines == <<"#", " ", "a", "\n", "|", " ", "$">>
\* "# a | - *": a chain of two selectors
q_chain == <<"#", " ", "a", " ", "|", " ", "-", " ", "*">>

QueryTexts == {q_invalid, q_regex, q_wide, q_lines, q_chain}

\* the rules that follow the first in a positives or negatives list
TailRules == {"top", "selector_chain", "EOI"}

RECURSIVE SeqsUpTo(_, _)
SeqsUpTo(S, n) ==
    IF n = 0 THEN {<<>>}
    ELSE LET shorter == SeqsUpTo(S, n - 1)
         IN  shorter \cup {Append(t, x) : t \in shorter, x \in S}

\* the positives lists that are empty or begin with rule r
PositivesOf(r) ==
    IF MaxPositives = 0 THEN {<<>>}
    ELSE {<<>>} \cup {<<r>> \o t : t \in SeqsUpTo(TailRules, MaxPositives - 1)}

Messages == {Msg("expected", <<"valid query">>), Msg("regex parse error", <<>>)}

\* grammar errors that list the rules expected at a position of q_lines,
\* the first of them r
ParsingErrors(r) ==
    {PestError("ParsingError", p, n, Msg("", <<>>), q_lines, pos, pos, FALSE) :
        p \in PositivesOf(r), n \in {<<>>, <<"EOI">>}, pos \in {0, 4}}

\* grammar errors of the custom variant, at a position or over a span
CustomErrors ==
    {PestError("CustomError", <<>>, <<>>, m, t, 0, 0, FALSE) :
        m \in Messages, t \in {q_invalid, q_lines}}
    \cup {PestError("CustomError", <<>>, <<>>, m, q_lines, 0, 7, TRUE) : m \in Messages}

\* semantic errors: any span, resolvable in the query text or not
OtherErrors ==
    {OtherError(a, b, m) : a \in 0..MaxOffset, b \in 0..MaxOffset, m \in Messages}

-----------------------------------------------------------------------------
(* The state of the REPL before main() runs; the diagnostics leave it alone. *)

\* ReplInput::default(): the history keeps this many lines
max_history == 1000

\* no selection is under way
SelIdle ==
    /\ sel_doc = <<>>
    /\ sel_chain = <<>>
    /\ sel_k = 0
    /\ working_set = <<>>
    /\ previous_set = <<>>
    /\ sel_out = None

ReplStart ==
    /\ rpc = "start"
    /\ cap = max_history
    /\ accepted = <<>>
    /\ stored = FALSE
    /\ allow_unknown_markdown = FALSE
    /\ stdin_open = TRUE
    /\ content = None
    /\ path = None
    /\ document = None
    /\ current_format = "Markdown"
    /\ variables = <<>>
    /\ history = <<>>
    /\ line = None
    /\ command = None
    /\ tried = None
    /\ output = <<>>
    /\ steps = 0

-----------------------------------------------------------------------------
(* The diagnostics as a state machine: a ParseError and a query text are   *)
(* given; the renderers, the parser, run() and the rule table are applied. *)

InitErr ==
    /\ ReplStart
    /\ SelIdle
    /\ epc = "made"
    /\ \/ /\ rule \in Rule
          /\ perr \in ParsingErrors(rule)
          /\ query_text \in {q_invalid, q_lines}
       \/ /\ rule = "top"
          /\ perr \in CustomErrors \cup OtherErrors
          /\ query_text \in QueryTexts
    /\ plain = None
    /\ enhanced = None
    /\ enhanced_errors = FALSE
    /\ error_output = None
    /\ desc = None

\* parse_error.to_string(query_text)
Call_to_string ==
    /\ epc \in {"made", "parsed"}
    /\ plain = None
    /\ plain' = Some(to_string(perr, query_text))
    /\ UNCHANGED <<epc, perr, query_text, enhanced, enhanced_errors, error_output, rule, desc>>
    /\ UNCHANGED <<replVars, histVars, selVars>>

\* parse_error.to_string_with_suggestions(query_text)
Call_to_string_with_suggestions ==
    /\ epc \in {"made", "parsed"}
    /\ enhanced = None
    /\ enhanced' = Some(to_string_with_suggestions(perr, query_text))
    /\ UNCHANGED <<epc, perr, query_text, plain, enhanced_errors, error_output, rule, desc>>
    /\ UNCHANGED <<replVars, histVars, selVars>>

\* rule_to_string(rule)
Call_rule_to_string ==
    /\ epc = "made"
    /\ plain = None /\ enhanced = None /\ desc = None
    /\ desc' = Some(rule_to_string(rule))
    /\ UNCHANGED <<epc, perr, query_text, plain, enhanced, enhanced_errors, error_output, rule>>
    /\ UNCHANGED <<replVars, histVars, selVars>>

\* Selector::try_from(query_text).expect_err(..): the error of a rejected query
Call_try_from ==
    /\ epc = "made"
    /\ plain = None /\ enhanced = None /\ desc = None
    /\ LET r == Selector_try_parse(query_text)
       IN  /\ ~r.ok
           /\ perr' = Unwrap(r.err)
    /\ epc' = "parsed"
    /\ UNCHANGED <<query_text, plain, enhanced, enhanced_errors, error_output, rule, desc>>
    /\ UNCHANGED <<replVars, histVars, selVars>>

\* the error text run() hands to write_error for a rejected selector string
run_error(e, selectors, enhanced_flag) ==
    IF enhanced_flag THEN to_string_with_suggestions(e, selectors)
    ELSE to_string(e, selectors)

\* run::run(&RunOptions {selectors: query_text, enhanced_errors: flag, ..}, os)
Run(flag) ==
    /\ epc = "made"
    /\ plain = None /\ enhanced = None /\ desc = None
    /\ LET r == Selector_try_parse(query_text)
       IN  /\ error_output' = IF r.ok THEN None
                              ELSE Some(run_error(Unwrap(r.err), query_text, flag))
           /\ perr' = IF r.ok THEN perr ELSE Unwrap(r.err)
    /\ enhanced_errors' = flag
    /\ epc' = "ran"
    /\ UNCHANGED <<query_text, plain, enhanced, rule, desc>>
    /\ UNCHANGED <<replVars, histVars, selVars>>

NextErr ==
    \/ Call_to_string
    \/ Call_to_string_with_suggestions
    \/ Call_rule_to_string
    \/ Call_try_from
    \/ \E flag \in BOOLEAN : Run(flag)

SpecErr == InitErr /\ [][NextErr]_vars

-----------------------------------------------------------------------------
(* What the claims about the diagnostics speak of.                         *)

\* the "Suggestions:" catalog as the specification prints it, after the
\* blank line that separates it from the diagram
CatalogOfSpec ==
    <<TextLine(""),
      TextLine("Suggestions:"),
      TextLine("  * Use # for sections (e.g., '# My Section')"),
      TextLine("  * Use - for list items (e.g., '- List item')"),
      TextLine("  * Use [] for links (e.g., '[text](url)')"),
      TextLine("  * Use > for blockquotes (e.g., '> Quote text')"),
      TextLine("  * Use ~~~ for code blocks (e.g., '~~~rust code')"),
      TextLine("  * Use +++ for front matter (e.g., '+++ toml')"),
      TextLine("  * Use </> for HTML (e.g., '</> <div>')"),
      TextLine("  * Use P: for paragraphs (e.g., 'P: paragraph text')"),
      TextLine("  * Use :-: for tables (e.g., ':-: column | row')"),
      TextLine("  * Use | to separate multiple selectors (e.g., '# Section | - List item')")>>

\* the text holds the lines one after the other
Contains(out, lines) ==
    \E i \in 0..(Len(out) - Len(lines)) : SubSeq(out, i + 1, i + Len(lines)) = lines

\* the text holds the line
HasLine(out, l) == \E i \in 1..Len(out) : out[i] = l

\* the text is a caret diagram, maybe with more after it: the " --> line:col"
\* header, then the source line, then the caret line
HasCaretDiagram(out) ==
    /\ Len(out) >= 4
    /\ out[1].k = "-->"
    /\ \E i \in 2..Len(out) : \E j \in (i + 1)..Len(out) :
          out[i].k = "source" /\ out[j].k = "^"

\* the span lies in the text and on its character boundaries
Resolves(text, start, end) ==
    /\ start <= end
    /\ \E i \in 0..Len(text) : \E j \in i..Len(text) :
          /\ start = byte_len(SubSeq(text, 1, i))
          /\ end = byte_len(SubSeq(text, 1, j))

\* no positive rule can be extracted from the grammar error
NoRule(e) == e.inner = "Pest" /\ (e.variant = "CustomError" \/ e.positives = <<>>)

\* C2: for a grammar error from which no positive rule can be extracted
\* (empty positives, or the custom variant), to_string_with_suggestions is
\* the baseline rendering followed by "Suggestions:" and the ten catalog
\* lines in their order, whatever the error and the query text.
C2_CatalogFallback ==
    (IsSome(enhanced) /\ NoRule(perr))
        => Unwrap(enhanced) = to_string(perr, query_text) \o CatalogOfSpec

C2_Witness ==
    /\ IsSome(enhanced)
    /\ epc = "made"
    /\ perr.inner = "Pest" /\ perr.variant = "ParsingError" /\ perr.positives = <<>>
    /\ perr.negatives # <<>>
    /\ Contains(Unwrap(enhanced), CatalogOfSpec)

\* C3: every query string the parser rejects, run with enhanced_errors =
\* true, gives error output that holds "Suggestions:" and the catalog lines.
C3_EveryRejectionGetsCatalog ==
    (epc = "ran" /\ enhanced_errors /\ ~Selector_try_parse(query_text).ok)
        => /\ IsSome(error_output)
           /\ Contains(Unwrap(error_output), CatalogOfSpec)

\* C4: for a grammar error with a non-empty positives list,
\* to_string_with_suggestions is the baseline rendering, a blank line and
\* "Expected: `d`", d the description of the first positive rule, and it
\* holds no "Suggestions:" catalog.
C4_ExpectedHint ==
    (IsSome(enhanced) /\ perr.inner = "Pest" /\ perr.variant = "ParsingError"
        /\ perr.positives # <<>>)
        => /\ Unwrap(enhanced)
                = to_string(perr, query_text)
                  \o <<TextLine(""), ExpectedLine(rule_to_string(perr.positives[1]))>>
           /\ ~HasLine(Unwrap(enhanced), TextLine("Suggestions:"))

C4_Witness ==
    /\ IsSome(enhanced)
    /\ perr.inner = "Pest" /\ perr.variant = "ParsingError"
    /\ Len(perr.positives) >= 2
    /\ perr.positives[1] = "list_start" /\ perr.positives[Len(perr.positives)] = "EOI"
    /\ HasLine(Unwrap(enhanced), ExpectedLine("- or 1."))

\* C5: for a semantic error whose span resolves against the query text,
\* to_string_with_suggestions is the caret diagram followed by the fixed
\* "Suggestions:" catalog.
C5_SemanticGetsCatalog ==
    (IsSome(enhanced) /\ perr.inner = "Other"
        /\ Resolves(query_text, perr.start, perr.end))
        => /\ HasCaretDiagram(Unwrap(enhanced))
           /\ Contains(Unwrap(enhanced), CatalogOfSpec)

\* C6: for a semantic error whose span does not resolve against the query
\* text (start > end, an offset beyond the text or inside a character),
\* to_string and to_string_with_suggestions both return the raw message and
\* nothing else.
C6_StaleSpanRawMessage ==
    (perr.inner = "Other" /\ ~Resolves(query_text, perr.start, perr.end))
        => /\ IsSome(plain) => Unwrap(plain) = <<RawLine(perr.message)>>
           /\ IsSome(enhanced) => Unwrap(enhanced) = <<RawLine(perr.message)>>

C6_Witness ==
    /\ perr.inner = "Other"
    /\ query_text = q_wide
    /\ perr.start = 1 /\ perr.end = 2
    /\ IsSome(plain) /\ IsSome(enhanced)
    /\ Unwrap(plain) = Unwrap(enhanced)

\* C7 as claimed: for every ParseError and every query text, to_string's
\* result includes the caret diagram.
C7_AlwaysDiagram ==
    IsSome(plain) => HasCaretDiagram(Unwrap(plain))

\* C7 as amended: to_string's result includes the caret diagram for every
\* grammar error, and for every semantic error whose span resolves against
\* the query text; for a semantic error whose span does not resolve it is
\* the raw message, with no diagram.
C7_DiagramWhenResolved ==
    IsSome(plain)
        => IF perr.inner = "Pest" \/ Resolves(query_text, perr.start, perr.end)
           THEN HasCaretDiagram(Unwrap(plain))
           ELSE ~HasCaretDiagram(Unwrap(plain))

C7_Witness ==
    /\ IsSome(plain)
    /\ perr.inner = "Other"
    /\ query_text = q_regex /\ perr.start = 3 /\ perr.end = 4
    /\ HasCaretDiagram(Unwrap(plain))

\* C8: the query "$ ! invalid query string ! $" is rejected; to_string gives
\* the caret diagram at 1:1 that ends in "= expected valid query", and
\* to_string_with_suggestions holds "expected valid query", "Suggestions:"
\* and the "Use # for sections" line.
C8_InvalidQueryExample ==
    (epc = "parsed" /\ query_text = q_invalid)
        => /\ ~Selector_try_parse(q_invalid).ok
           /\ IsSome(plain) =>
                Unwrap(plain) = <<ArrowLine(1, 1), BarLine, SourceLine(1, q_invalid),
                                  UnderLine(1, 0), BarLine,
                                  MessageLine("expected", <<"valid query">>)>>
           /\ IsSome(enhanced) =>
                /\ HasLine(Unwrap(enhanced), MessageLine("expected", <<"valid query">>))
                /\ HasLine(Unwrap(enhanced), TextLine("Suggestions:"))
                /\ HasLine(Unwrap(enhanced),
                           TextLine("  * Use # for sections (e.g., '# My Section')"))

C8_Witness ==
    /\ epc = "parsed" /\ query_text = q_invalid
    /\ IsSome(plain) /\ IsSome(enhanced)
    /\ Len(Unwrap(enhanced)) > Len(Unwrap(plain))

\* C9: rule_to_string gives every rule of the grammar a non-empty
\* description; top is "valid query", selector_chain "one or more
\* selectors", section_start "#" and list_start "- or 1.".
C9_RuleDescriptions ==
    IsSome(desc)
        => /\ rule \in Rule
           /\ Unwrap(desc) # ""
           /\ rule = "top" => Unwrap(desc) = "valid query"
           /\ rule = "selector_chain" => Unwrap(desc) = "one or more selectors"
           /\ rule = "section_start" => Unwrap(desc) = "#"
           /\ rule = "list_start" => Unwrap(desc) = "- or 1."

C9_Witness ==
    IsSome(desc) /\ rule = "list_start" /\ Unwrap(desc) = "- or 1."

-----------------------------------------------------------------------------
(* Documents.  MdDoc::parse and Selector::find_nodes belong to the crate   *)
(* but not to the files at hand; they follow the specification.  A parsed  *)
(* document is its nodes in document (pre-) order, each with its kind, its *)
(* text and the index of its parent (0 for a root).                        *)

Node(kind, text, parent) == [kind |-> kind, text |-> text, parent |-> parent]

\* the document of the crate's example: two sections, a list of two items in each
doc_sections ==
    <<Node("Section", <<"F", "i", "r", "s", "t", " ", "s", "e", "c", "t", "i", "o", "n">>, 0),
      Node("List", <<>>, 1),
      Node("ListItem", <<"h", "e", "l", "l", "o">>, 2),
      Node("ListItem", <<"w", "o", "r", "l", "d">>, 2),
      Node("Section", <<"S", "e", "c", "o", "n", "d", " ", "s", "e", "c", "t", "i", "o", "n">>, 0),
      Node("List", <<>>, 5),
      Node("ListItem", <<"f", "o", "o">>, 6),
      Node("ListItem", <<"b", "a", "r">>, 6)>>

\* a document with a section in a section and a list in a list item
doc_nested ==
    <<Node("Section", <<"O", "u", "t", "e", "r">>, 0),
      Node("Paragraph", <<"t", "e", "x", "t">>, 1),
      Node("Section", <<"I", "n", "n", "e", "r", " ", "s", "e", "c", "o", "n", "d">>, 1),
      Node("List", <<>>, 3),
      Node("ListItem", <<"f", "o", "o">>, 4),
      Node("List", <<>>, 5),
      Node("ListItem", <<"b", "a", "r">>, 6),
      Node("Section", <<"L", "a", "s", "t">>, 0),
      Node("Paragraph", <<"f", "o", "o">>, 8)>>

\* a document of one paragraph
doc_paragraph == <<Node("Paragraph", <<"t", "e", "x", "t">>, 0)>>

\* the contents a file may hold: Markdown texts, named
FileContents == {"md_sections", "md_paragraph", "md_unknown"}

\* MdDoc::parse: "md_unknown" holds Markdown the parser does not know, which
\* is an InvalidMd error unless allow_unknown_markdown is set
MdDoc_parse(text, allow_unknown) ==
    CASE text = "md_sections" -> [ok |-> TRUE, doc |-> doc_sections]
      [] text = "md_paragraph" -> [ok |-> TRUE, doc |-> doc_paragraph]
      [] text = "md_unknown" ->
            IF allow_unknown THEN [ok |-> TRUE, doc |-> doc_paragraph]
            ELSE [ok |-> FALSE, doc |-> <<>>]

\* char::to_lowercase on the letters the documents and queries hold
to_lowercase(c) ==
    CASE c = "F" -> "f"
      [] c = "S" -> "s"
      [] c = "P" -> "p"
      [] c = "O" -> "o"
      [] c = "I" -> "i"
      [] c = "L" -> "l"
      [] OTHER -> c

\* no case folding
as_written(s) == s

lowercase(s) == [i \in 1..Len(s) |-> to_lowercase(s[i])]

\* str::contains
contains(s, sub) ==
    \E i \in 0..(Len(s) - Len(sub)) : SubSeq(s, i + 1, i + Len(sub)) = sub

\* the node's text satisfies the selector's matcher
matches_text(spec, node) ==
    CASE spec.matcher = "Any" -> TRUE
      [] spec.matcher = "Literal" -> contains(lowercase(node.text), lowercase(spec.text))
      [] spec.matcher = "Regex" -> contains(node.text, spec.text)

\* node at index n lies in the subtree of the node at index w (or is it)
RECURSIVE in_subtree(_, _, _)
in_subtree(doc, n, w) ==
    IF n = w THEN TRUE
    ELSE IF n = 0 \/ doc[n].parent = 0 THEN FALSE
    ELSE in_subtree(doc, doc[n].parent, w)

\* the indices of the node's children, in source order
children(doc, n) == SelectSeq([i \in 1..Len(doc) |-> i], LAMBDA c : doc[c].parent = n)

\* traversal that visits the children of a node last to first
RECURSIVE traverse_reversed(_, _)
traverse_reversed(doc, ns) ==
    IF ns = <<>> THEN <<>>
    ELSE traverse_reversed(doc, Tail(ns))
         \o <<Head(ns)>> \o traverse_reversed(doc, children(doc, Head(ns)))

\* the depth-first, document-order traversal of the subtrees of the nodes
\* ns, one subtree after the other, each node before its children
RECURSIVE traverse(_, _)
traverse(doc, ns) ==
    IF ns = <<>> THEN <<>>
    ELSE <<Head(ns)>> \o traverse(doc, children(doc, Head(ns)))
         \o traverse(doc, Tail(ns))

\* the node is a candidate of the selector: its kind is the selector's, and
\* a list item lies in a list
is_candidate(doc, n, spec) ==
    /\ doc[n].kind = spec.kind
    /\ spec.kind = "ListItem"
          => (doc[n].parent # 0 /\ doc[doc[n].parent].kind = "List")

\* no deduplication
keep_all(ns) == ns

\* the sequence without its repeated nodes: the first occurrence of each
\* node stays, in its place
RECURSIVE dedup(_)
dedup(ns) ==
    IF ns = <<>> THEN <<>>
    ELSE LET front == dedup(SubSeq(ns, 1, Len(ns) - 1))
             last == ns[Len(ns)]
         IN  IF \E i \in 1..Len(front) : front[i] = last THEN front
             ELSE Append(front, last)

\* a chain step that searches the whole document
select_anywhere(doc, working, spec) ==
    SelectSeq([i \in 1..Len(doc) |-> i],
              LAMBDA n : is_candidate(doc, n, spec) /\ matches_text(spec, doc[n]))

\* one step of the chain: the subtrees of the working set's nodes are
\* traversed, the candidates the selector selects are collected and
\* deduplicated
select_step(doc, working, spec) ==
    dedup(SelectSeq(traverse(doc, working),
                    LAMBDA n : is_candidate(doc, n, spec) /\ matches_text(spec, doc[n])))

RECURSIVE fold_chain(_, _, _)
fold_chain(doc, working, chain) ==
    IF chain = <<>> THEN working
    ELSE fold_chain(doc, select_step(doc, working, Head(chain)), Tail(chain))

\* the indices of the document's roots
roots(doc) == SelectSeq([i \in 1..Len(doc) |-> i], LAMBDA n : doc[n].parent = 0)

\* Selector::find_nodes: the selected nodes; it raises no error
find_nodes(chain, doc) == [ok |-> TRUE, nodes |-> fold_chain(doc, roots(doc), chain)]

-----------------------------------------------------------------------------
(* The REPL: ReplInput, ReplSession, ReplState, the command handlers and   *)
(* the loop of ReplEngine::run.                                            *)

\* ReplInput::add_to_history stores the command: it is not empty and not
\* the one stored last
accepts(h, cmd) == cmd # <<>> /\ (h = <<>> \/ h[Len(h)] # cmd)

\* add_to_history without its size limit
add_to_history_unbounded(h, cmd, max) ==
    IF cmd = <<>> \/ (h # <<>> /\ h[Len(h)] = cmd) THEN h ELSE Append(h, cmd)

\* add_to_history that drops the newest entry when the limit is passed
add_to_history_newest_out(h, cmd, max) ==
    IF cmd = <<>> \/ (h # <<>> /\ h[Len(h)] = cmd) THEN h
    ELSE LET pushed == Append(h, cmd)
         IN  IF Len(pushed) > max THEN SubSeq(pushed, 1, Len(pushed) - 1) ELSE pushed

\* add_to_history without its test for a repeated command
add_to_history_repeating(h, cmd, max) ==
    IF cmd = <<>> THEN h
    ELSE LET pushed == Append(h, cmd)
         IN  IF Len(pushed) > max THEN Tail(pushed) ELSE pushed

\* add_to_history without its test for an empty command
add_to_history_any(h, cmd, max) ==
    IF h # <<>> /\ h[Len(h)] = cmd THEN h
    ELSE LET pushed == Append(h, cmd)
         IN  IF Len(pushed) > max THEN Tail(pushed) ELSE pushed

\* ReplInput::add_to_history
add_to_history(h, cmd, max) ==
    IF cmd = <<>> \/ (h # <<>> /\ h[Len(h)] = cmd) THEN h
    ELSE LET pushed == Append(h, cmd)
         IN  IF Len(pushed) > max THEN Tail(pushed) ELSE pushed

\* a line written to the terminal: a fixed text with what fills its
\* placeholders (a string, a number, a rendered error, the variables)
Out(text, arg, n, err) == [text |-> text, arg |-> arg, n |-> n, err |-> err]
Say(text) == Out(text, <<>>, 0, <<>>)

\* the lines of show_help (commands.rs)
show_help ==
    <<Say("mdq REPL - Interactive Markdown Query Tool"),
      Say(""),
      Say("Available commands:"),
      Say("  <selector>     Execute a selector query"),
      Say("  .load <file>   Load a document from file"),
      Say("  .reload        Reload the current document"),
      Say("  .format <fmt>  Change output format (md|json|plain)"),
      Say("  .set <n> <v>   Set a variable"),
      Say("  .get <n>       Get a variable value"),
      Say("  .vars          List all variables"),
      Say("  .info          Show document information"),
      Say("  .clear         Clear current document"),
      Say("  .help          Show this help"),
      Say("  .exit          Exit REPL"),
      Say(""),
      Say("Selector examples:"),
      Say("  # Section      - Select sections with title containing 'Section'"),
      Say("  - List item    - Select list items containing 'List item'"),
      Say("  [text](url)    - Select links with display text 'text'"),
      Say("  > Quote        - Select blockquotes containing 'Quote'"),
      Say("  ~~~rust        - Select code blocks with language 'rust'")>>

\* the lines of ReplEngine::show_welcome
show_welcome ==
    <<Say("mdq REPL - Interactive Markdown Query Tool"),
      Say("Type '.help' for available commands, or enter a selector query"),
      Say("Press Ctrl+D or type '.exit' to quit"),
      Say("")>>

\* what a handler returns: Ok(cont), what it wrote, the variables after it,
\* and the string it handed to the selector parser, if any
Handled(cont, out, vs, t) == [cont |-> cont, out |-> out, variables |-> vs, tried |-> t]

\* execute_query that reports an empty result as an error
report_empty_as_error(found) ==
    IF ~found.ok \/ found.nodes = <<>> THEN <<Say("Error executing selector: {}")>>
    ELSE <<Out("Found {} matching elements", <<>>, Len(found.nodes), <<>>),
           Say("Output formatting not yet implemented in REPL mode")>>

\* execute_query from the result of find_nodes on: what it writes
report_found(found) ==
    IF ~found.ok THEN <<Say("Error executing selector: {}")>>
    ELSE IF found.nodes = <<>> THEN <<Say("No elements matched the selector")>>
    ELSE <<Out("Found {} matching elements", <<>>, Len(found.nodes), <<>>),
           Say("Output formatting not yet implemented in REPL mode")>>

\* execute_query that records the query in the variables
execute_query_recording(selector_str, doc, vs) ==
    Handled(FALSE, <<Say("No elements matched the selector")>>,
            [n \in (DOMAIN vs) \cup {<<"_">>} |-> IF n = <<"_">> THEN selector_str ELSE vs[n]],
            Some(selector_str))

\* execute_query that parses the selector before it looks for the document
execute_query_parse_first(selector_str, doc, vs) ==
    LET r == Selector_try_parse(selector_str)
    IN  IF ~r.ok
        THEN Handled(FALSE,
                     <<Out("Error parsing selector: {}", <<>>, 0,
                           Display_ParseError(Unwrap(r.err)))>>,
                     vs, Some(selector_str))
        ELSE IF doc = None
        THEN Handled(FALSE, <<Say("Error: No document loaded. Use .load <file> first.")>>,
                     vs, Some(selector_str))
        ELSE Handled(FALSE, report_found(find_nodes(r.chain, Unwrap(doc))), vs,
                     Some(selector_str))

\* execute_query (commands.rs)
execute_query(selector_str, doc, vs) ==
    IF doc = None
    THEN Handled(FALSE, <<Say("Error: No document loaded. Use .load <file> first.")>>, vs, None)
    ELSE LET r == Selector_try_parse(selector_str)
             found == find_nodes(r.chain, Unwrap(doc))
         IN  IF ~r.ok
             THEN Handled(FALSE,
                          <<Out("Error parsing selector: {}", <<>>, 0,
                                Display_ParseError(Unwrap(r.err)))>>,
                          vs, Some(selector_str))
             ELSE Handled(FALSE, report_found(found), vs, Some(selector_str))

\* HashMap::insert
insert(vs, name, value) ==
    [n \in (DOMAIN vs) \cup {name} |-> IF n = name THEN value ELSE vs[n]]

\* execute_command (commands.rs)
execute_command(cmd, doc, vs) ==
    CASE cmd.tag = "Query" -> execute_query(cmd.a, doc, vs)
      [] cmd.tag = "Load" ->
            Handled(TRUE, <<Out("Loading document from: {}", cmd.a, 0, <<>>)>>, vs, None)
      [] cmd.tag = "Reload" -> Handled(TRUE, <<Say("Reloading document...")>>, vs, None)
      [] cmd.tag = "Format" ->
            Handled(FALSE, <<Out("Setting output format to: {:?}", cmd.fmt, 0, <<>>)>>, vs, None)
      [] cmd.tag = "Set" ->
            Handled(FALSE, <<Out("Set variable '{}' = '{}'", <<cmd.a, cmd.b>>, 0, <<>>)>>,
                    insert(vs, cmd.a, cmd.b), None)
      [] cmd.tag = "Get" ->
            IF cmd.a \in DOMAIN vs
            THEN Handled(FALSE, <<Out("{} = {}", <<cmd.a, vs[cmd.a]>>, 0, <<>>)>>, vs, None)
            ELSE Handled(FALSE, <<Out("Variable '{}' not found", cmd.a, 0, <<>>)>>, vs, None)
      [] cmd.tag = "Variables" ->
            IF DOMAIN vs = {}
            THEN Handled(FALSE, <<Say("No variables set")>>, vs, None)
            ELSE Handled(FALSE,
                         <<Say("Variables:"),
                           Out("  {} = {}", {<<n, vs[n]>> : n \in DOMAIN vs}, 0, <<>>)>>,
                         vs, None)
      [] cmd.tag = "Help" -> Handled(FALSE, show_help, vs, None)
      [] cmd.tag = "Info" ->
            IF doc # None
            THEN Handled(FALSE,
                         <<Out("Document loaded with {} root elements", <<>>,
                               Len(roots(Unwrap(doc))), <<>>)>>, vs, None)
            ELSE Handled(FALSE, <<Say("No document loaded")>>, vs, None)
      [] cmd.tag = "Clear" -> Handled(FALSE, <<Say("Document cleared")>>, vs, None)
      [] cmd.tag = "Exit" -> Handled(FALSE, <<Say("Exiting REPL...")>>, vs, None)
      [] cmd.tag = "Unknown" ->
            Handled(FALSE,
                    <<Out("Unknown command: {}", cmd.a, 0, <<>>),
                      Say("Use .help for available commands")>>, vs, None)

\* ReplSession::document_info
document_info(c, p) ==
    IF c = None THEN Say("No document loaded")
    ELSE IF p # None THEN Out("Document: {} ({} bytes)", Unwrap(p), 0, <<>>)
    ELSE Say("Document: stdin ({} bytes)")

(* The lines a user may type. *)

\* "# second"
l_section == <<"#", " ", "s", "e", "c", "o", "n", "d">>
\* "  - *  "
l_padded == <<" ", " ", "-", " ", "*", " ", " ">>
\* "> quote"
l_nomatch == <<">", " ", "q", "u", "o", "t", "e">>
\* "$ a"
l_invalid == <<"$", " ", "a">>
\* "# /(/"
l_regex == <<"#", " ", "/", "(", "/">>
\* ""
l_empty == <<>>
\* "  "
l_blank == <<" ", " ">>
\* ".load f"
l_load == <<".", "l", "o", "a", "d", " ", "f">>
\* ".load"
l_load_bare == <<".", "l", "o", "a", "d">>
\* ". load f"
l_dot_load == <<".", " ", "l", "o", "a", "d", " ", "f">>
\* ".reload"
l_reload == <<".", "r", "e", "l", "o", "a", "d">>
\* ".format json"
l_format_json == <<".", "f", "o", "r", "m", "a", "t", " ", "j", "s", "o", "n">>
\* ".format xml"
l_format_xml == <<".", "f", "o", "r", "m", "a", "t", " ", "x", "m", "l">>
\* ".set k v  w"
l_set == <<".", "s", "e", "t", " ", "k", " ", "v", " ", " ", "w">>
\* ".get k"
l_get == <<".", "g", "e", "t", " ", "k">>
\* ".vars"
l_vars == <<".", "v", "a", "r", "s">>
\* ".info"
l_info == <<".", "i", "n", "f", "o">>
\* ".clear"
l_clear == <<".", "c", "l", "e", "a", "r">>
\* ".help"
l_help == <<".", "h", "e", "l", "p">>
\* ".exit"
l_exit == <<".", "e", "x", "i", "t">>
\* " .quit "
l_quit == <<" ", ".", "q", "u", "i", "t", " ">>
\* ".foo"
l_foo == <<".", "f", "o", "o">>
\* "."
l_dot == <<".">>
\* ".load a b"
l_load_two == <<".", "l", "o", "a", "d", " ", "a", " ", "b">>
\* " .get"
l_get_bare == <<" ", ".", "g", "e", "t">>
\* ".set k"
l_set_short == <<".", "s", "e", "t", " ", "k">>
\* ".format"
l_format_bare == <<".", "f", "o", "r", "m", "a", "t">>

\* ".format md"
l_format_md == <<".", "f", "o", "r", "m", "a", "t", " ", "m", "d">>
\* ".format markdown"
l_format_markdown == <<".", "f", "o", "r", "m", "a", "t", " ", "m", "a", "r", "k", "d", "o", "w", "n">>
\* ".format plain"
l_format_plain == <<".", "f", "o", "r", "m", "a", "t", " ", "p", "l", "a", "i", "n">>
\* ".variables"
l_variables == <<".", "v", "a", "r", "i", "a", "b", "l", "e", "s">>

Lines ==
    {l_section, l_padded, l_nomatch, l_invalid, l_regex, l_empty, l_blank,
     l_load, l_load_bare, l_dot_load, l_reload, l_format_json,
     l_format_xml, l_set, l_get, l_vars, l_info, l_clear, l_help, l_exit,
     l_quit, l_foo, l_dot, l_load_two, l_get_bare, l_set_short,
     l_format_bare}


\* what reading a file may give: an I/O error or the file's contents
ReadResults == {"io_error"} \cup FileContents

\* nothing rendered, no parse error at hand
ErrIdle ==
    /\ epc = "idle"
    /\ perr = None
    /\ query_text = <<>>
    /\ plain = None
    /\ enhanced = None
    /\ enhanced_errors = FALSE
    /\ error_output = None
    /\ rule = "top"
    /\ desc = None

\* the REPL as started by main()
Init ==
    /\ ReplStart
    /\ SelIdle
    /\ ErrIdle

\* the output formats of the command line's --output
OutputFormat == {"Markdown", "Json", "Plain"}

\* ReplEngine::run up to its loop: a fresh ReplState (no document, the
\* format of the run options), an empty variable map, the welcome text
run_enters_loop ==
    /\ document' = None
    /\ current_format' \in OutputFormat
    /\ variables' = <<>>
    /\ output' = show_welcome
    /\ rpc' = "prompt"
    /\ UNCHANGED <<history, line, command, tried, steps>>

\* main() -> run_repl_mode with no file argument
MainNoFile ==
    /\ rpc = "start"
    /\ allow_unknown_markdown' \in BOOLEAN
    /\ run_enters_loop
    /\ UNCHANGED <<stdin_open, content, path>>
    /\ UNCHANGED <<errVars, histVars, selVars>>

\* main() -> run_repl_mode with a file argument: the file is read into the
\* session (Repl::load_document); a read failure ends the program
MainFile(r) ==
    /\ rpc = "start"
    /\ allow_unknown_markdown' \in BOOLEAN
    /\ IF r = "io_error"
       THEN /\ rpc' = "failed"
            /\ output' = <<Say("REPL error: {}")>>
            /\ UNCHANGED <<content, path, document, current_format, variables,
                           history, line, command, tried, steps>>
       ELSE /\ content' = Some(r)
            /\ path' = None
            /\ run_enters_loop
    /\ UNCHANGED stdin_open
    /\ UNCHANGED <<errVars, histVars, selVars>>

\* main() -> run_repl_mode with the argument "-": standard input is read to
\* its end into the session, so the loop's first read meets end of input
MainStdin(r) ==
    /\ rpc = "start"
    /\ allow_unknown_markdown' \in BOOLEAN
    /\ IF r = "io_error"
       THEN /\ rpc' = "failed"
            /\ output' = <<Say("REPL error: {}")>>
            /\ UNCHANGED <<content, path, document, current_format, variables,
                           history, line, command, tried, steps>>
       ELSE /\ content' = Some(r)
            /\ path' = None
            /\ run_enters_loop
    /\ stdin_open' = FALSE
    /\ UNCHANGED <<errVars, histVars, selVars>>

\* the loop's read_line gives Ok(None): break, "Goodbye!", return
ReadEof ==
    /\ rpc = "prompt"
    /\ rpc' = "exited"
    /\ line' = None
    /\ command' = None
    /\ tried' = None
    /\ output' = <<Say("Goodbye!")>>
    /\ UNCHANGED <<allow_unknown_markdown, stdin_open, content, path, document,
                   current_format, variables, history, steps>>
    /\ UNCHANGED <<errVars, histVars, selVars>>

\* the loop's read_line gives Err: a message on stderr, continue
ReadError ==
    /\ rpc = "prompt"
    /\ stdin_open
    /\ steps < MaxSteps
    /\ steps' = steps + 1
    /\ line' = None
    /\ command' = None
    /\ tried' = None
    /\ output' = <<Say("Error reading input: {}")>>
    /\ UNCHANGED <<rpc, allow_unknown_markdown, stdin_open, content, path, document,
                   current_format, variables, history>>
    /\ UNCHANGED <<errVars, histVars, selVars>>

\* ReplInput::read_line gives Ok(Some(trimmed)) and the loop parses it
Reads(l, tag) ==
    /\ rpc = "prompt"
    /\ stdin_open
    /\ steps < MaxSteps
    /\ ReplCommand_parse(trim(l)).tag \in tag
    /\ steps' = steps + 1
    /\ line' = Some(l)
    /\ history' = IF trim(l) # <<>> THEN add_to_history(history, trim(l), cap)
                  ELSE history
    /\ accepted' = IF accepts(history, trim(l)) THEN Append(accepted, trim(l))
                   ELSE accepted
    /\ stored' = accepts(history, trim(l))
    /\ UNCHANGED cap
    /\ command' = Some(ReplCommand_parse(trim(l)))
    /\ UNCHANGED <<allow_unknown_markdown, stdin_open>>
    /\ UNCHANGED <<errVars, selVars>>

\* the end of a loop iteration without the farewell line
Finish_silent(cont, out) ==
    /\ rpc' = IF cont THEN "prompt" ELSE "exited"
    /\ output' = out

\* the end of a loop iteration: continue, or break, "Goodbye!", return
Finish(cont, out) ==
    /\ rpc' = IF cont THEN "prompt" ELSE "exited"
    /\ output' = IF cont THEN out ELSE out \o <<Say("Goodbye!")>>

\* one loop iteration on a query line: the Query arm of
\* ReplEngine::execute_command
DoQuery(l) ==
    /\ Reads(l, {"Query"})
    /\ LET h == execute_command(ReplCommand_parse(trim(l)), document, variables)
       IN  /\ Finish(h.cont, h.out)
           /\ variables' = h.variables
           /\ tried' = h.tried
    /\ UNCHANGED <<content, path, document, current_format>>

\* one loop iteration on .set, .get, .vars, .help, .info or an unknown
\* command: the catch-all arm of ReplEngine::execute_command
DoOther(l) ==
    /\ Reads(l, {"Set", "Get", "Variables", "Help", "Info", "Unknown"})
    /\ LET h == execute_command(ReplCommand_parse(trim(l)), document, variables)
       IN  /\ Finish(h.cont, h.out)
           /\ variables' = h.variables
           /\ tried' = h.tried
    /\ UNCHANGED <<content, path, document, current_format>>

\* load_and_parse that drops the loaded document when the file cannot be read
load_and_parse_forgetting(p, r, failed, parse_failed, done) ==
    IF r = "io_error"
    THEN /\ output' = <<Say(failed)>>
         /\ content' = None
         /\ path' = None
         /\ document' = None
    ELSE /\ content' = Some(r)
         /\ path' = Some(p)
         /\ LET parsed == MdDoc_parse(r, allow_unknown_markdown)
            IN  IF parsed.ok
                THEN /\ document' = Some(parsed.doc)
                     /\ output' = <<done, document_info(Some(r), Some(p))>>
                ELSE /\ document' = document
                     /\ output' = <<Say(parse_failed)>>

\* ReplSession::load_document_from_file, then parse_document and
\* set_document, with what each arm writes
load_and_parse(p, r, failed, parse_failed, done) ==
    IF r = "io_error"
    THEN /\ output' = <<Say(failed)>>
         /\ UNCHANGED <<content, path, document>>
    ELSE /\ content' = Some(r)
         /\ path' = Some(p)
         /\ LET parsed == MdDoc_parse(r, allow_unknown_markdown)
            IN  IF parsed.ok
                THEN /\ document' = Some(parsed.doc)
                     /\ output' = <<done, document_info(Some(r), Some(p))>>
                ELSE /\ document' = document
                     /\ output' = <<Say(parse_failed)>>

\* one loop iteration on .load <file>
DoLoad(l, r) ==
    /\ Reads(l, {"Load"})
    /\ load_and_parse(ReplCommand_parse(trim(l)).a, r,
                      "Error loading document: {}", "Error parsing document: {}",
                      Out("Document loaded successfully: {}",
                          ReplCommand_parse(trim(l)).a, 0, <<>>))
    /\ rpc' = "prompt"
    /\ tried' = None
    /\ UNCHANGED <<current_format, variables>>

\* one loop iteration on .reload: ReplSession::reload reads the session's
\* path again, and fails when there is none
DoReload(l, r) ==
    /\ Reads(l, {"Reload"})
    /\ IF path = None
       THEN /\ output' = <<Say("Error reloading document: {}")>>
            /\ UNCHANGED <<content, path, document>>
       ELSE load_and_parse(Unwrap(path), r,
                           "Error reloading document: {}",
                           "Error parsing reloaded document: {}",
                           Say("Document reloaded successfully"))
    /\ rpc' = "prompt"
    /\ tried' = None
    /\ UNCHANGED <<current_format, variables>>

\* one loop iteration on .format <fmt>
DoFormat(l) ==
    /\ Reads(l, {"Format"})
    /\ current_format' = ReplCommand_parse(trim(l)).fmt
    /\ output' = <<Out("Output format set to: {:?}", ReplCommand_parse(trim(l)).fmt,
                       0, <<>>)>>
    /\ rpc' = "prompt"
    /\ tried' = None
    /\ UNCHANGED <<content, path, document, variables>>

\* one loop iteration on .clear
DoClear(l) ==
    /\ Reads(l, {"Clear"})
    /\ content' = None
    /\ path' = None
    /\ document' = None
    /\ output' = <<Say("Document cleared")>>
    /\ rpc' = "prompt"
    /\ tried' = None
    /\ UNCHANGED <<current_format, variables>>

\* one loop iteration on .exit or .quit
DoExit(l) ==
    /\ Reads(l, {"Exit"})
    /\ Finish(FALSE, <<>>)
    /\ tried' = None
    /\ UNCHANGED <<content, path, document, current_format, variables>>

Next ==
    \/ MainNoFile
    \/ \E r \in ReadResults : MainFile(r)
    \/ \E r \in ReadResults : MainStdin(r)
    \/ ReadEof
    \/ ReadError
    \/ \E l \in Lines : DoQuery(l)
    \/ \E l \in Lines : DoOther(l)
    \/ \E l \in Lines, r \in ReadResults : DoLoad(l, r)
    \/ \E l \in Lines, r \in ReadResults : DoReload(l, r)
    \/ \E l \in Lines : DoFormat(l)
    \/ \E l \in Lines : DoClear(l)
    \/ \E l \in Lines : DoExit(l)

Spec == Init /\ [][Next]_vars

-----------------------------------------------------------------------------
(* Properties of the REPL loop. *)

\* the last iteration handed a string to the selector parser and the parser
\* rejected it
QueryRejected == tried # None /\ ~Selector_try_parse(Unwrap(tried)).ok

\* C1: after a loop iteration whose query line failed to parse as a
\* selector, the REPL is at its prompt again, ready to read the next line,
\* and has not terminated.
C1_ContinuesAfterParseFailure == QueryRejected => rpc = "prompt"

\* a bare line: after trimming it does not start with '.'
IsBare(l) == ~starts_with(trim(l), <<".">>)

\* C10 as stated: every bare line read, an empty or whitespace-only one
\* included, is classified Query carrying the trimmed line and is handed to
\* the selector parser.
C10_EveryBareLineIsQuery ==
    (line # None /\ IsBare(Unwrap(line)))
        => /\ command = Some(Cmd("Query", trim(Unwrap(line)), <<>>, ""))
           /\ tried = Some(trim(Unwrap(line)))

\* C10: a bare line that is not empty after trimming is classified Query
\* carrying the trimmed line, and is handed to the selector parser when a
\* document is loaded; a line that is empty after trimming is classified
\* Unknown carrying the empty string and is not handed to the parser.
C10_NonEmptyBareLineIsQuery ==
    (line # None /\ IsBare(Unwrap(line)))
        => IF trim(Unwrap(line)) # <<>>
           THEN /\ command = Some(Cmd("Query", trim(Unwrap(line)), <<>>, ""))
                /\ (document # None => tried = Some(trim(Unwrap(line))))
                /\ (document = None => tried = None)
           ELSE /\ command = Some(Cmd("Unknown", <<>>, <<>>, ""))
                /\ tried = None

\* a padded bare line was read with a document loaded and went to the parser
C10_Witness ==
    /\ line = Some(l_padded)
    /\ document # None
    /\ command = Some(Cmd("Query", <<"-", " ", "*">>, <<>>, ""))
    /\ tried = Some(<<"-", " ", "*">>)

-----------------------------------------------------------------------------
(* ReplCommand::parse on its own: a line is given, as typed, and parsed.   *)

\* a text as typed with blanks before it, after it, or both
Padded(t) == {t, <<" ">> \o t, t \o <<" ", " ">>, <<" ">> \o t \o <<" ">>}

\* the documented dot-commands and the commands they stand for
DocumentedCommands ==
    {<<l_load, Cmd("Load", <<"f">>, <<>>, "")>>,
     <<l_reload, Cmd("Reload", <<>>, <<>>, "")>>,
     <<l_format_md, Cmd("Format", <<>>, <<>>, "Markdown")>>,
     <<l_format_markdown, Cmd("Format", <<>>, <<>>, "Markdown")>>,
     <<l_format_json, Cmd("Format", <<>>, <<>>, "Json")>>,
     <<l_format_plain, Cmd("Format", <<>>, <<>>, "Plain")>>,
     <<l_set, Cmd("Set", <<"k">>, <<"v", " ", "w">>, "")>>,
     <<l_get, Cmd("Get", <<"k">>, <<>>, "")>>,
     <<l_vars, Cmd("Variables", <<>>, <<>>, "")>>,
     <<l_variables, Cmd("Variables", <<>>, <<>>, "")>>,
     <<l_info, Cmd("Info", <<>>, <<>>, "")>>,
     <<l_clear, Cmd("Clear", <<>>, <<>>, "")>>,
     <<l_help, Cmd("Help", <<>>, <<>>, "")>>,
     <<l_exit, Cmd("Exit", <<>>, <<>>, "")>>,
     <<<<".", "q", "u", "i", "t">>, Cmd("Exit", <<>>, <<>>, "")>>}

\* the lines given to ReplCommand::parse: the documented commands with and
\* without blanks around them, and the other lines of the REPL
ParseInputs == UNION {Padded(p[1]) : p \in DocumentedCommands} \cup Lines

InitParse ==
    /\ rpc = "start"
    /\ cap = max_history
    /\ accepted = <<>>
    /\ stored = FALSE
    /\ allow_unknown_markdown = FALSE
    /\ stdin_open = TRUE
    /\ content = None
    /\ path = None
    /\ document = None
    /\ current_format = "Markdown"
    /\ variables = <<>>
    /\ history = <<>>
    /\ line \in {Some(l) : l \in ParseInputs}
    /\ command = None
    /\ tried = None
    /\ output = <<>>
    /\ steps = 0
    /\ SelIdle
    /\ ErrIdle

\* ReplCommand::parse(&line)
Call_parse ==
    /\ rpc = "start"
    /\ line # None
    /\ command = None
    /\ command' = Some(ReplCommand_parse(Unwrap(line)))
    /\ UNCHANGED <<rpc, allow_unknown_markdown, stdin_open, content, path, document,
                   current_format, variables, history, line, tried, output, steps>>
    /\ UNCHANGED <<errVars, histVars, selVars>>

NextParse == Call_parse

SpecParse == InitParse /\ [][NextParse]_vars

\* C11: a line that is one of the documented dot-commands, with or without
\* whitespace before and after it, is parsed to that command: .load f to
\* Load(f), .reload to Reload, .format md|markdown|json|plain to Format of
\* that format, .set k v  w to Set(k, "v w"), .get k to Get(k), .vars and
\* .variables to Variables, .info to Info, .clear to Clear, .help to Help,
\* .exit and .quit to Exit.
C11_DotCommandTable ==
    command # None
        => \A p \in DocumentedCommands :
              Unwrap(line) \in Padded(p[1]) => command = Some(p[2])

\* ".set k v  w" with blanks around it was parsed to Set(k, "v w")
C11_Witness ==
    /\ line = Some(<<" ">> \o l_set \o <<" ">>)
    /\ command = Some(Cmd("Set", <<"k">>, <<"v", " ", "w">>, ""))

-----------------------------------------------------------------------------
(* Properties of the REPL's document. *)

\* the first line has been read and handled in a REPL that main() started
\* with a file whose Markdown parses: the session holds the file's content
\* and no path, as Repl::load_document leaves it
FirstLineAfterStartupFile ==
    /\ steps = 1
    /\ line # None
    /\ content # None
    /\ path = None
    /\ MdDoc_parse(Unwrap(content), allow_unknown_markdown).ok

\* C12: in a REPL started with a Markdown file, a query entered as the
\* first line is evaluated against that document (it reaches the selector
\* parser and is not answered with "No document loaded"), and .info as the
\* first line reports a loaded document.
C12_StartupDocumentLoaded ==
    FirstLineAfterStartupFile
        => /\ Unwrap(command).tag = "Query"
                => /\ tried = Some(trim(Unwrap(line)))
                   /\ output[1] # Say("Error: No document loaded. Use .load <file> first.")
           /\ Unwrap(command).tag = "Info"
                => output[1].text = "Document loaded with {} root elements"

\* the step reads a line and handles it as a query
QueryStep ==
    /\ steps' = steps + 1
    /\ line' # None
    /\ command' # None
    /\ Unwrap(command').tag = "Query"

\* C13: a step that executes a query, whatever its outcome, leaves the
\* loaded document, the session's content and path, the output format and
\* the variables as they were.
C13_QueryLeavesStateAlone ==
    [][QueryStep
         => /\ document' = document
            /\ content' = content
            /\ path' = path
            /\ current_format' = current_format
            /\ variables' = variables]_vars

\* a query was run against a loaded document and matched nodes of it
C13_Witness ==
    /\ line # None
    /\ command # None /\ Unwrap(command).tag = "Query"
    /\ document # None /\ content # None /\ path # None
    /\ tried = Some(trim(Unwrap(line)))
    /\ output[1].text = "Found {} matching elements"

-----------------------------------------------------------------------------
(* Selection on its own: a document and a selector chain are given, the    *)
(* chain is applied step by step as find_nodes applies it, and             *)
(* execute_query reports the result.                                       *)

\* the document without nodes
doc_empty == <<>>

Docs == {doc_sections, doc_nested, doc_paragraph, doc_empty}

\* "# second | - *"
q_second_items ==
    <<"#", " ", "s", "e", "c", "o", "n", "d", " ", "|", " ", "-", " ", "*">>

\* the selectors the chains are made of
SelSpecs ==
    {SelectorSpec("Section", "Any", <<>>),
     SelectorSpec("Section", "Literal", <<"s", "e", "c", "o", "n", "d">>),
     SelectorSpec("ListItem", "Any", <<>>),
     SelectorSpec("ListItem", "Literal", <<"f", "o", "o">>),
     SelectorSpec("Paragraph", "Any", <<>>)}

\* the non-empty chains of at most MaxChain selectors
Chains == SeqsUpTo(SelSpecs, MaxChain) \ {<<>>}

InitSel ==
    /\ ReplStart
    /\ ErrIdle
    /\ sel_doc \in Docs
    /\ sel_chain \in Chains
    /\ sel_k = 0
    /\ working_set = roots(sel_doc)
    /\ previous_set = <<>>
    /\ sel_out = None

\* find_nodes applies the next selector of the chain to the working set
ApplySelector ==
    /\ sel_out = None
    /\ sel_k < Len(sel_chain)
    /\ sel_k' = sel_k + 1
    /\ previous_set' = working_set
    /\ working_set' = select_step(sel_doc, working_set, sel_chain[sel_k + 1])
    /\ UNCHANGED <<sel_doc, sel_chain, sel_out>>
    /\ UNCHANGED <<replVars, errVars, histVars>>

\* find_nodes returns and execute_query reports what it returned
ReportFound ==
    /\ sel_out = None
    /\ sel_k = Len(sel_chain)
    /\ sel_out' = Some(report_found(find_nodes(sel_chain, sel_doc)))
    /\ UNCHANGED <<sel_doc, sel_chain, sel_k, working_set, previous_set>>
    /\ UNCHANGED <<replVars, errVars, histVars>>

NextSel == ApplySelector \/ ReportFound

SpecSel == InitSel /\ [][NextSel]_vars

-----------------------------------------------------------------------------
(* Properties of selection. *)

\* the document's pre-order: every node, each before its children, the
\* children in source order
RECURSIVE pre_order(_, _)
pre_order(doc, ns) ==
    IF ns = <<>> THEN <<>>
    ELSE LET n == Head(ns)
             below == SelectSeq([i \in 1..Len(doc) |-> i], LAMBDA c : doc[c].parent = n)
         IN  <<n>> \o pre_order(doc, below) \o pre_order(doc, Tail(ns))

document_order(doc) ==
    pre_order(doc, SelectSeq([i \in 1..Len(doc) |-> i], LAMBDA n : doc[n].parent = 0))

\* s is t with some of its elements left out
RECURSIVE IsSubsequence(_, _)
IsSubsequence(s, t) ==
    IF s = <<>> THEN TRUE
    ELSE IF t = <<>> THEN FALSE
    ELSE IF Head(s) = Head(t) THEN IsSubsequence(Tail(s), Tail(t))
    ELSE IsSubsequence(s, Tail(t))

\* the working set after the first j selectors of the chain
WorkingAfter(j) == fold_chain(sel_doc, roots(sel_doc), SubSeq(sel_chain, 1, j))

\* C14: after any number of chain steps the working set, and with it the
\* sequence find_nodes returns, is a subsequence of the document's
\* pre-order traversal: the selected nodes are in source order.
C14_ResultInDocumentOrder ==
    /\ IsSubsequence(working_set, document_order(sel_doc))
    /\ sel_out # None
         => /\ find_nodes(sel_chain, sel_doc).nodes = working_set
            /\ IsSubsequence(find_nodes(sel_chain, sel_doc).nodes,
                             document_order(sel_doc))

\* two steps on the nested document: the working set of the second step
\* holds a section and the section inside it, and the result is in order
C14_Witness ==
    /\ sel_doc = doc_nested
    /\ sel_k = 2
    /\ previous_set = <<1, 3, 8>>
    /\ working_set = <<5, 7>>
    /\ sel_out # None

\* C15: once a chain step has yielded an empty working set, the working
\* set after every later step is empty, the result is empty, find_nodes
\* succeeds, and execute_query reports "No elements matched the selector"
\* and no error.
C15_EmptyStaysEmpty ==
    /\ (sel_k >= 1 /\ previous_set = <<>>) => working_set = <<>>
    /\ (\E j \in 1..sel_k : WorkingAfter(j) = <<>>)
         => /\ working_set = <<>>
            /\ sel_out # None
                 => /\ find_nodes(sel_chain, sel_doc).ok
                    /\ find_nodes(sel_chain, sel_doc).nodes = <<>>
                    /\ Unwrap(sel_out) = <<Say("No elements matched the selector")>>

\* on the two-section document the first of three steps selected nothing,
\* two more steps were applied and the empty result was reported
C15_Witness ==
    /\ sel_doc = doc_sections
    /\ Len(sel_chain) = 3
    /\ sel_k = 3
    /\ WorkingAfter(1) = <<>>
    /\ working_set = <<>>
    /\ sel_out = Some(<<Say("No elements matched the selector")>>)

\* C16: the query "# second | - *" parses to a section selector with the
\* literal "second" followed by a list item selector without matcher; on
\* the document with the sections "First section" (hello, world) and
\* "Second section" (foo, bar) it selects the items foo and bar, in that
\* order, and nothing else.
C16_SecondSectionItems ==
    /\ Selector_try_parse(q_second_items).ok
    /\ (sel_doc = doc_sections
          /\ sel_chain = Selector_try_parse(q_second_items).chain
          /\ sel_k = Len(sel_chain))
         => /\ Len(working_set) = 2
            /\ sel_doc[working_set[1]] = Node("ListItem", <<"f", "o", "o">>, 6)
            /\ sel_doc[working_set[2]] = Node("ListItem", <<"b", "a", "r">>, 6)
            /\ find_nodes(sel_chain, sel_doc).nodes = working_set

C16_Witness ==
    /\ sel_doc = doc_sections
    /\ sel_chain = <<SelectorSpec("Section", "Literal", <<"s", "e", "c", "o", "n", "d">>),
                     SelectorSpec("ListItem", "Any", <<>>)>>
    /\ sel_chain = Selector_try_parse(q_second_items).chain
    /\ sel_k = 2
    /\ working_set = <<7, 8>>
    /\ sel_out # None

\* C17: in the working set after every chain step, and in the result of
\* find_nodes, each node appears once at most.
C17_NoNodeTwice ==
    /\ \A i, j \in 1..Len(working_set) : working_set[i] = working_set[j] => i = j
    /\ sel_out # None
         => LET nodes == find_nodes(sel_chain, sel_doc).nodes
            IN  \A i, j \in 1..Len(nodes) : nodes[i] = nodes[j] => i = j

\* the list items of the nested document were selected from a working set
\* that holds the outer section and the inner one: each item is reached
\* from both
C17_Witness ==
    /\ sel_doc = doc_nested
    /\ sel_k = 3
    /\ previous_set = <<1, 3, 8>>
    /\ working_set = <<5, 7>>
    /\ in_subtree(sel_doc, 5, 1) /\ in_subtree(sel_doc, 5, 3)

\* C18: after every chain step each node of the working set is a node of
\* the previous working set or a descendant of one.
C18_WithinPreviousSubtrees ==
    sel_k >= 1
        => \A i \in 1..Len(working_set) :
              \E j \in 1..Len(previous_set) :
                 in_subtree(sel_doc, working_set[i], previous_set[j])

\* the second step refined the inner section of the nested document to its
\* list items, and left the paragraphs outside it alone
C18_Witness ==
    /\ sel_doc = doc_nested
    /\ sel_k = 2
    /\ previous_set = <<3>>
    /\ working_set = <<5, 7>>

-----------------------------------------------------------------------------
(* ReplInput on its own: ReplInput::new(n), then calls of add_to_history.  *)

\* the commands handed to add_to_history
HistoryCommands == {l_empty, l_help, l_vars, l_info}

\* ReplInput::new(n)
InitHist ==
    /\ rpc = "start"
    /\ cap \in 0..MaxHistory
    /\ accepted = <<>>
    /\ stored = FALSE
    /\ allow_unknown_markdown = FALSE
    /\ stdin_open = TRUE
    /\ content = None
    /\ path = None
    /\ document = None
    /\ current_format = "Markdown"
    /\ variables = <<>>
    /\ history = <<>>
    /\ line = None
    /\ command = None
    /\ tried = None
    /\ output = <<>>
    /\ steps = 0
    /\ SelIdle
    /\ ErrIdle

\* the lines typed at the prompt of ReplInput::read_line
HistoryLines == {l_empty, l_blank, l_quit, l_help}

\* ReplInput::add_to_history(c); line keeps the command handed over
Call_add_to_history(c) ==
    /\ steps < MaxAdds
    /\ steps' = steps + 1
    /\ line' = Some(c)
    /\ history' = add_to_history(history, c, cap)
    /\ accepted' = IF accepts(history, c) THEN Append(accepted, c) ELSE accepted
    /\ stored' = accepts(history, c)
    /\ UNCHANGED <<rpc, allow_unknown_markdown, stdin_open, content, path, document,
                   current_format, variables, command, tried, output, cap>>
    /\ UNCHANGED <<errVars, selVars>>

\* ReplInput::read_line when the line l is typed: the line is trimmed and,
\* unless that leaves nothing, handed to add_to_history
Call_read_line(l) ==
    /\ steps < MaxAdds
    /\ steps' = steps + 1
    /\ line' = Some(l)
    /\ history' = IF trim(l) # <<>> THEN add_to_history(history, trim(l), cap)
                  ELSE history
    /\ accepted' = IF accepts(history, trim(l)) THEN Append(accepted, trim(l))
                   ELSE accepted
    /\ stored' = accepts(history, trim(l))
    /\ UNCHANGED <<rpc, allow_unknown_markdown, stdin_open, content, path, document,
                   current_format, variables, command, tried, output, cap>>
    /\ UNCHANGED <<errVars, selVars>>

NextHist ==
    \/ \E c \in HistoryCommands : Call_add_to_history(c)
    \/ \E l \in HistoryLines : Call_read_line(l)

SpecHist == InitHist /\ [][NextHist]_vars

\* C19: after any sequence of add_to_history calls the history holds at
\* most max_history entries.
C19_HistoryBounded == Len(history) <= cap

\* more commands were stored than the history holds, and it is full
C19_Witness ==
    /\ cap = 2
    /\ Len(accepted) > cap
    /\ Len(history) = cap

\* C20: the history is the last max_history commands that add_to_history
\* stored (all of them while they are fewer), oldest first: the oldest
\* entry is the one evicted and the others keep their order.
C20_OldestEvictedFirst ==
    LET n == Len(accepted)
        k == IF n < cap THEN n ELSE cap
    IN  history = SubSeq(accepted, n - k + 1, n)

\* four commands were stored in a history of two: the first two are gone
C20_Witness ==
    /\ cap = 2
    /\ Len(accepted) = 4
    /\ history = <<accepted[3], accepted[4]>>
    /\ accepted[1] # accepted[3]

\* a step of ReplInput: a command was handed over or a line was read
InputStep == steps' = steps + 1 /\ line' # None

\* no two neighbours of h are equal
NoRepeat(h) == \A i \in 1..(Len(h) - 1) : h[i] # h[i + 1]

\* C21: add_to_history with the command that is the newest entry leaves
\* the history as it was, and after every call no two neighbouring entries
\* of the history are equal.
C21_NoAdjacentDuplicates ==
    [][InputStep =>
          /\ (history # <<>> /\ Unwrap(line') = history[Len(history)])
                => history' = history
          /\ NoRepeat(history')]_vars

\* the newest entry was handed over again, between two other commands, and
\* was not stored a second time
C21_Witness ==
    /\ cap = 3
    /\ accepted = <<l_help, l_vars>>
    /\ history = <<l_help, l_vars>>
    /\ line = Some(l_vars)
    /\ ~stored

\* C22: add_to_history with an empty command, and read_line with a line
\* that is empty once trimmed, leave the history as it was, and no entry
\* of the history is ever empty.
C22_NoEmptyEntry ==
    [][InputStep =>
          /\ trim(Unwrap(line')) = <<>> => history' = history
          /\ \A i \in 1..Len(history') : history'[i] # <<>>]_vars

\* an empty command was handed to a history that holds entries
C22_Witness ==
    /\ line = Some(l_empty)
    /\ ~stored
    /\ Len(history) = 2
    /\ steps = 3

-----------------------------------------------------------------------------
(* The end of the REPL loop. *)

\* the command of the last iteration, by its tag ("" when no line was read)
LastTag == IF command = None THEN "" ELSE Unwrap(command).tag

\* C23: the REPL has returned only when read_line reported the end of the
\* input or the last command was .exit or .quit; after any other command
\* it is at its prompt again.
C23_EndsOnlyOnExitOrEof == rpc = "exited" => (line = None \/ LastTag = "Exit")

\* the step reads the end of the input, or reads .exit or .quit
EofOrExitStep ==
    /\ rpc = "prompt"
    /\ \/ line' = None /\ steps' = steps
       \/ command' # None /\ Unwrap(command').tag = "Exit"

\* the number of "Goodbye!" lines among the lines out
Farewells(out) == Cardinality({i \in DOMAIN out : out[i] = Say("Goodbye!")})

\* C24: on .exit, .quit or the end of the input the REPL returns Ok with
\* the document, the session's content and path, the format and the
\* variables as they were, prints "Goodbye!" exactly once, and takes no
\* further step: nothing is read or executed after it has returned.
C24_ExitEndsSession ==
    [][/\ rpc # "exited"
       /\ EofOrExitStep
            => /\ rpc' = "exited"
               /\ Farewells(output') = 1
               /\ UNCHANGED <<content, path, document, current_format,
                              variables>>]_vars

\* .quit was read with a document loaded, and the REPL returned
C24_Witness ==
    /\ rpc = "exited"
    /\ line = Some(l_quit)
    /\ LastTag = "Exit"
    /\ document # None
    /\ output = <<Say("Goodbye!")>>

-----------------------------------------------------------------------------
(* The two renderings of one error. *)

\* the lines a are the first lines of b
IsPrefix(a, b) == Len(a) <= Len(b) /\ SubSeq(b, 1, Len(a)) = a

\* C25: for every ParseError and query text the result of to_string is a
\* prefix of the result of to_string_with_suggestions: the enhanced
\* rendering only appends to the baseline.
C25_EnhancedExtendsBaseline ==
    (IsSome(plain) /\ IsSome(enhanced)) => IsPrefix(Unwrap(plain), Unwrap(enhanced))

\* both renderings of a semantic error with a resolvable span were made,
\* and the enhanced one is longer
C25_Witness ==
    /\ IsSome(plain) /\ IsSome(enhanced)
    /\ perr.inner = "Other"
    /\ Resolves(query_text, perr.start, perr.end)
    /\ Len(Unwrap(enhanced)) > Len(Unwrap(plain))

-----------------------------------------------------------------------------
(* Lines that start with a dot. *)

\* the malformed dot lines: an unknown name, a bare dot, .load and .get
\* without exactly one argument, .set with fewer than two, .format with no
\* value or an unsupported one
MalformedLines ==
    {l_foo, l_dot, l_load_bare, l_load_two, l_get_bare, l_set_short,
     l_format_bare, l_format_xml}

\* the step reads a line that starts with a dot once trimmed
DotStep ==
    /\ steps' = steps + 1
    /\ line' # None
    /\ starts_with(trim(Unwrap(line')), <<".">>)

\* C26: no line that starts with a dot is executed as a query, and a
\* malformed one is classified Unknown carrying the trimmed line, is
\* answered with "Unknown command", and leaves the document, the session's
\* content and path, the format and the variables as they were.
C26_DotLineNeverQuery ==
    [][DotStep =>
          /\ Unwrap(command').tag # "Query"
          /\ tried' = None
          /\ Unwrap(line') \in MalformedLines =>
                /\ command' = Some(Cmd("Unknown", trim(Unwrap(line')), <<>>, ""))
                /\ output'[1] = Out("Unknown command: {}", trim(Unwrap(line')), 0, <<>>)
                /\ UNCHANGED <<content, path, document, current_format,
                               variables>>]_vars

\* " .get" was read with a document loaded and a format chosen
C26_Witness ==
    /\ line = Some(l_get_bare)
    /\ command = Some(Cmd("Unknown", <<".", "g", "e", "t">>, <<>>, ""))
    /\ tried = None
    /\ document # None
    /\ current_format = "Json"

-----------------------------------------------------------------------------
(* Queries and loads. *)

\* C27: a query read while no document is loaded is answered with
\* "Error: No document loaded. Use .load <file> first." and nothing else
\* but the farewell, the selector string is not handed to the parser (so an
\* invalid selector gets the same answer), and the document, the session's
\* content and path, the format and the variables stay as they were.
C27_NoDocumentNoParse ==
    [][(QueryStep /\ document = None) =>
          /\ output'[1] = Say("Error: No document loaded. Use .load <file> first.")
          /\ \A i \in DOMAIN output' :
                output'[i].text \notin {"Error parsing selector: {}",
                                        "Error executing selector: {}",
                                        "No elements matched the selector",
                                        "Found {} matching elements"}
          /\ tried' = None
          /\ UNCHANGED <<content, path, document, current_format,
                         variables>>]_vars

\* an invalid selector was read with no document loaded
C27_Witness ==
    /\ line = Some(l_invalid)
    /\ document = None
    /\ ~Selector_try_parse(trim(l_invalid)).ok
    /\ tried = None
    /\ output[1] = Say("Error: No document loaded. Use .load <file> first.")

\* C28: at every prompt of the REPL, and when it has returned, ReplState
\* holds a parsed document exactly when ReplSession holds content:
\* state.has_document() == session.has_document().
C28_StateAndSessionAgree ==
    rpc \in {"prompt", "exited"} => ((document # None) <=> (content # None))

\* C29: a .load whose file cannot be read writes "Error loading document"
\* and nothing else, leaves the session's content and path and the parsed
\* document as they were, and the REPL is at its prompt again, where the
\* document loaded before can still be queried.
C29_FailedReadKeepsDocument ==
    [][\A l \in Lines :
          DoLoad(l, "io_error") =>
             /\ output' = <<Say("Error loading document: {}")>>
             /\ UNCHANGED <<content, path, document>>
             /\ rpc' = "prompt"]_vars

\* a second .load failed to read its file while a document was loaded
C29_Witness ==
    /\ rpc = "prompt"
    /\ steps = 2
    /\ command # None /\ Unwrap(command).tag = "Load"
    /\ output = <<Say("Error loading document: {}")>>
    /\ document = Some(doc_sections)
    /\ content = Some("md_sections")

\* C30: a .load or .reload whose file is read but does not parse as
\* Markdown leaves the session's content and path and the parsed document
\* as they were, so that the parsed document stays the parse of the
\* session's content.
C30_FailedParseKeepsSession ==
    [][\A l \in Lines : \A r \in FileContents :
          ((DoLoad(l, r) \/ DoReload(l, r))
              /\ ~MdDoc_parse(r, allow_unknown_markdown).ok)
            => /\ UNCHANGED <<content, path, document>>
               /\ document' # None
                    => document' = Some(MdDoc_parse(Unwrap(content'),
                                                    allow_unknown_markdown).doc)]_vars
=============================================================================
